---- MODULE Spec2Model ----
(***************************************************************************)
(* Model of the user selection pane of react-flow                          *)
(* (src/components/UserSelection/index.tsx): the rectangle a user draws    *)
(* with the mouse, the hit test of the nodes against it, the edges         *)
(* connected to the hit nodes and the selection changes handed to the      *)
(* store on every mouse move.                                              *)
(***************************************************************************)
EXTENDS Integers, FiniteSets, Sequences, TLC

VARIABLES
    userSelectionRect,       \* useState<SelectionRect>(initialRect)
    prevSelectedNodesCount,  \* useRef<number>(0)
    prevSelectedEdgesCount,  \* useRef<number>(0)
    containerBounds,         \* useRef<DOMRect>(): NoBounds or [left, top]
    userSelectionActive,     \* store.userSelectionActive
    nodesSelectionActive,    \* store.nodesSelectionActive
    nodeSelected,            \* store: the selected flag of every node
    edgeSelected,            \* store: the selected flag of every edge
    transform,               \* store.transform = <<tx, ty, zoom>>
    elementsSelectable,      \* store.elementsSelectable
    selectionKeyPressed,     \* prop selectionKeyPressed
    keyGated,                \* typeof selectionKeyCode !== 'boolean'
    nodesChanges,            \* argument of onNodesChange in the last handler, or NoCall
    edgesChanges,            \* argument of onEdgesChange in the last handler, or NoCall
    lastEvent                \* the event the last handler ran for, and what it saw

vars == <<userSelectionRect, prevSelectedNodesCount, prevSelectedEdgesCount,
          containerBounds, userSelectionActive, nodesSelectionActive,
          nodeSelected, edgeSelected, transform, elementsSelectable,
          selectionKeyPressed, keyGated, nodesChanges, edgesChanges, lastEvent>>

controllerVars == <<userSelectionRect, prevSelectedNodesCount,
                    prevSelectedEdgesCount, containerBounds>>
storeVars == <<userSelectionActive, nodesSelectionActive, nodeSelected,
               edgeSelected>>

----------------------------------------------------------------------------
(* Bounds of the model: the pointer moves on a grid of client coordinates. *)
MaxX == 2
MaxY == 1

ClientXs == 0..MaxX
ClientYs == 0..MaxY

(* The left edges getBoundingClientRect may report for the container; its  *)
(* top edge is at 0.                                                       *)
Lefts == {0, 1}

(* The graph held by the store: two unit boxes side by side, and node c,   *)
(* which has not been measured yet.                                        *)
NodeOrder == <<"a", "b", "c">>
Nodes == {NodeOrder[i] : i \in 1..Len(NodeOrder)}
NoDim == [width |-> -1, height |-> -1]
nodePosition == [n \in Nodes |->
                   CASE n = "a" -> [x |-> 0, y |-> 0]
                     [] n = "b" -> [x |-> 1, y |-> 0]
                     [] OTHER   -> [x |-> 2, y |-> 0]]
nodeDimensions == [n \in Nodes |->
                   CASE n = "a" -> [width |-> 1, height |-> 1]
                     [] n = "b" -> [width |-> 1, height |-> 1]
                     [] OTHER   -> NoDim]

EdgeOrder == <<"e1", "e2">>
Edges == {EdgeOrder[i] : i \in 1..Len(EdgeOrder)}
edgeSource == [e \in Edges |-> IF e = "e1" THEN "a" ELSE "b"]
edgeTarget == [e \in Edges |-> "c"]

Transforms == {<<0, 0, 1>>, <<0, 0, 2>>}

NoBounds == [none |-> TRUE]
NoCall == [called |-> FALSE, changes |-> <<>>]
Call(changes) == [called |-> TRUE, changes |-> changes]

----------------------------------------------------------------------------
Abs(n) == IF n < 0 THEN -n ELSE n

initialRect == [startX |-> 0, startY |-> 0, x |-> 0, y |-> 0,
                width |-> 0, height |-> 0, draw |-> FALSE]

getMousePosition(clientX, clientY, bounds) ==
    [x |-> clientX - bounds.left, y |-> clientY - bounds.top]

(* The render guard: the pane, and with it the four handlers, exists only  *)
(* when the component does not return null.                                *)
renderUserSelectionPane == userSelectionActive \/ selectionKeyPressed
Rendered == ~(keyGated /\ (~elementsSelectable \/ ~renderUserSelectionPane))

----------------------------------------------------------------------------
(* utils/graph and utils/changes are not among the sources: these follow   *)
(* the specification's Geometry, Connectivity and Diff modules.            *)

(* The canvas rectangle is (rect - translate) / zoom; the comparison is    *)
(* made on both sides multiplied by zoom, which is > 0.                    *)
getNodesInside(rect, tr, partially) ==
    LET k  == tr[3]
        rx1 == rect.x - tr[1]
        ry1 == rect.y - tr[2]
        rx2 == rx1 + rect.width
        ry2 == ry1 + rect.height
        inside(n) ==
            LET nx1 == k * nodePosition[n].x
                ny1 == k * nodePosition[n].y
                nx2 == k * (nodePosition[n].x + nodeDimensions[n].width)
                ny2 == k * (nodePosition[n].y + nodeDimensions[n].height)
            IN  /\ nodeDimensions[n] # NoDim
                /\ IF partially
                   THEN nx1 < rx2 /\ rx1 < nx2 /\ ny1 < ry2 /\ ry1 < ny2
                   ELSE rx1 <= nx1 /\ nx2 <= rx2 /\ ry1 <= ny1 /\ ny2 <= ry2
    IN  {n \in Nodes : inside(n)}

getConnectedEdges(selectedNodes) ==
    {e \in Edges : edgeSource[e] \in selectedNodes \/ edgeTarget[e] \in selectedNodes}

(* Fault: a select record for every id to be selected, whatever its flag.  *)
RECURSIVE getSelectionChanges_reselect(_, _, _)
getSelectionChanges_reselect(order, selected, selectedIds) ==
    IF order = <<>> THEN <<>>
    ELSE LET id   == Head(order)
             rest == getSelectionChanges_reselect(Tail(order), selected,
                                                  selectedIds)
         IN  IF id \in selectedIds
             THEN <<[id |-> id, selected |-> TRUE]>> \o rest
             ELSE IF selected[id]
             THEN <<[id |-> id, selected |-> FALSE]>> \o rest
             ELSE rest

RECURSIVE getSelectionChanges(_, _, _)
getSelectionChanges(order, selected, selectedIds) ==
    IF order = <<>> THEN <<>>
    ELSE LET id   == Head(order)
             rest == getSelectionChanges(Tail(order), selected, selectedIds)
         IN  IF id \in selectedIds /\ ~selected[id]
             THEN <<[id |-> id, selected |-> TRUE]>> \o rest
             ELSE IF selected[id] /\ id \notin selectedIds
             THEN <<[id |-> id, selected |-> FALSE]>> \o rest
             ELSE rest

(* The store's change handler: it sets the flags the batch names.          *)
applyChanges(selected, call) ==
    LET changes == call.changes
    IN  [id \in DOMAIN selected |->
            IF \E i \in 1..Len(changes) : changes[i].id = id
            THEN (CHOOSE c \in {changes[i] : i \in 1..Len(changes)} : c.id = id).selected
            ELSE selected[id]]

----------------------------------------------------------------------------
TypeOK ==
    /\ userSelectionRect \in [startX : Int, startY : Int, x : Int, y : Int,
                              width : Int, height : Int, draw : BOOLEAN]
    /\ prevSelectedNodesCount \in 0..Cardinality(Nodes)
    /\ prevSelectedEdgesCount \in 0..Cardinality(Edges)
    /\ containerBounds = NoBounds \/ containerBounds \in [left : Lefts, top : {0}]
    /\ userSelectionActive \in BOOLEAN
    /\ nodesSelectionActive \in BOOLEAN
    /\ nodeSelected \in [Nodes -> BOOLEAN]
    /\ edgeSelected \in [Edges -> BOOLEAN]
    /\ transform \in Transforms
    /\ elementsSelectable \in BOOLEAN
    /\ selectionKeyPressed \in BOOLEAN
    /\ keyGated \in BOOLEAN

(* What a handler is told and what it finds: the kind of event, the client *)
(* position when the handler reads it (lines 72 and 92; 0 otherwise),      *)
(* whether a move got past the guard, the drawing flag and the counters at *)
(* the handler's start, and the ids a move computes in lines 106-108.      *)
Event(kind, clientX, clientY, processed) ==
    [kind |-> kind, clientX |-> clientX, clientY |-> clientY,
     processed |-> processed, draw |-> userSelectionRect.draw,
     nodesCount |-> prevSelectedNodesCount,
     edgesCount |-> prevSelectedEdgesCount,
     selectedNodeIds |-> {}, selectedEdgeIds |-> {}]

(* elementsSelectable is read by the render guard of line 141 alone, and   *)
(* only when selectionKeyCode is no boolean.                               *)
Init ==
    /\ keyGated \in BOOLEAN
    /\ userSelectionRect = initialRect
    /\ prevSelectedNodesCount = 0
    /\ prevSelectedEdgesCount = 0
    /\ containerBounds = NoBounds
    /\ userSelectionActive = FALSE
    /\ nodesSelectionActive = FALSE
    /\ nodeSelected \in [Nodes -> BOOLEAN]
    /\ edgeSelected \in [Edges -> BOOLEAN]
    /\ transform \in Transforms
    /\ elementsSelectable \in (IF keyGated THEN BOOLEAN ELSE {TRUE})
    /\ selectionKeyPressed = FALSE
    /\ nodesChanges = NoCall
    /\ edgesChanges = NoCall
    /\ lastEvent = [kind |-> "init", clientX |-> 0, clientY |-> 0,
                    processed |-> FALSE, draw |-> FALSE,
                    nodesCount |-> 0, edgesCount |-> 0,
                    selectedNodeIds |-> {}, selectedEdgeIds |-> {}]

----------------------------------------------------------------------------
(* Faults of the reset: the counters left as they are; the store's         *)
(* userSelectionActive left as it is.                                      *)
resetUserSelection_keepCounts ==
    /\ userSelectionRect' = initialRect
    /\ userSelectionActive' = FALSE
    /\ UNCHANGED <<prevSelectedNodesCount, prevSelectedEdgesCount>>
resetUserSelection_keepActive ==
    /\ userSelectionRect' = initialRect
    /\ UNCHANGED userSelectionActive
    /\ prevSelectedNodesCount' = 0
    /\ prevSelectedEdgesCount' = 0

(* resetUserSelection, lines 58-65; containerBounds is left as it is.      *)
resetUserSelection ==
    /\ userSelectionRect' = initialRect
    /\ userSelectionActive' = FALSE
    /\ prevSelectedNodesCount' = 0
    /\ prevSelectedEdgesCount' = 0

(* onMouseDown, lines 67-85.  The onClick prop is the host's business.     *)
mouseDownRect(mousePos) ==
    [width |-> 0, height |-> 0, startX |-> mousePos.x, startY |-> mousePos.y,
     x |-> mousePos.x, y |-> mousePos.y, draw |-> TRUE]

(* Fault: the press leaving nodesSelectionActive as it finds it.           *)
mouseDownNodesSelectionActive_kept == nodesSelectionActive

(* line 84 *)
mouseDownNodesSelectionActive == FALSE

onMouseDown ==
    /\ Rendered
    /\ \E clientX \in ClientXs, clientY \in ClientYs, left \in Lefts :
          LET bounds == [left |-> left, top |-> 0]
          IN  /\ containerBounds' = bounds
              /\ userSelectionRect' =
                     mouseDownRect(getMousePosition(clientX, clientY, bounds))
              /\ lastEvent' = Event("down", clientX, clientY, TRUE)
    /\ userSelectionActive' = TRUE
    /\ nodesSelectionActive' = mouseDownNodesSelectionActive
    /\ nodesChanges' = NoCall
    /\ edgesChanges' = NoCall
    /\ UNCHANGED <<prevSelectedNodesCount, prevSelectedEdgesCount, nodeSelected,
                   edgeSelected, transform, elementsSelectable,
                   selectionKeyPressed, keyGated>>

(* Faults of the guard: the key test left out; the draw test left out.     *)
moveReturnsEarly_noKeyTest ==
    ~userSelectionRect.draw \/ containerBounds = NoBounds
moveReturnsEarly_noDrawTest ==
    \/ keyGated /\ ~selectionKeyPressed
    \/ containerBounds = NoBounds

(* onMouseMove, lines 88-90: the early returns.                            *)
moveReturnsEarly ==
    IF ~keyGated
    THEN ~userSelectionRect.draw \/ containerBounds = NoBounds
    ELSE ~selectionKeyPressed \/ ~userSelectionRect.draw
            \/ containerBounds = NoBounds

(* Fault: the width and height without Math.abs.                           *)
nextUserSelectRect_noAbs(mousePos) ==
    LET startX == userSelectionRect.startX
        startY == userSelectionRect.startY
    IN  [userSelectionRect EXCEPT
            !.x = IF mousePos.x < startX THEN mousePos.x ELSE startX,
            !.y = IF mousePos.y < startY THEN mousePos.y ELSE startY,
            !.width = mousePos.x - startX,
            !.height = mousePos.y - startY]

(* Fault: the anchor following the rectangle's corner.                     *)
nextUserSelectRect_movesAnchor(mousePos) ==
    LET startX == userSelectionRect.startX
        startY == userSelectionRect.startY
    IN  [userSelectionRect EXCEPT
            !.startX = IF mousePos.x < startX THEN mousePos.x ELSE startX,
            !.startY = IF mousePos.y < startY THEN mousePos.y ELSE startY,
            !.x = IF mousePos.x < startX THEN mousePos.x ELSE startX,
            !.y = IF mousePos.y < startY THEN mousePos.y ELSE startY,
            !.width = Abs(mousePos.x - startX),
            !.height = Abs(mousePos.y - startY)]

(* lines 92-102 *)
nextUserSelectRect(mousePos) ==
    LET startX == userSelectionRect.startX
        startY == userSelectionRect.startY
    IN  [userSelectionRect EXCEPT
            !.x = IF mousePos.x < startX THEN mousePos.x ELSE startX,
            !.y = IF mousePos.y < startY THEN mousePos.y ELSE startY,
            !.width = Abs(mousePos.x - startX),
            !.height = Abs(mousePos.y - startY)]

(* Fault: the hit test asked for partial overlap.                          *)
selectedNodeIdsOf_partial(rect) == getNodesInside(rect, transform, TRUE)

(* line 106: getNodesInside(nodeInternals, rect, transform, false, true)   *)
selectedNodeIdsOf(rect) == getNodesInside(rect, transform, FALSE)
(* line 107 *)
selectedEdgeIdsOf(rect) == getConnectedEdges(selectedNodeIdsOf(rect))

(* Fault: the handler called whatever the length of the batch.             *)
callWith_unguarded(changes) == Call(changes)

(* lines 113-115 and 121-123: the handler is called with a non-empty batch *)
callWith(changes) == IF Len(changes) > 0 THEN Call(changes) ELSE NoCall

(* Fault: the node diff run on every move, whatever the count.             *)
nodesCountChanged_always(selectedNodeIds) == TRUE

(* Fault: the comparison of line 110 turned round.                         *)
nodesCountChanged_inverted(selectedNodeIds) ==
    prevSelectedNodesCount = Cardinality(selectedNodeIds)

(* lines 110-116 *)
nodesCountChanged(selectedNodeIds) ==
    prevSelectedNodesCount # Cardinality(selectedNodeIds)

(* Fault: the node diff taken against the ids of the connected edges.      *)
nodesCall_edgeIds(selectedNodeIds) ==
    IF nodesCountChanged(selectedNodeIds)
    THEN callWith(getSelectionChanges(NodeOrder, nodeSelected,
                                      getConnectedEdges(selectedNodeIds)))
    ELSE NoCall

nodesCall(selectedNodeIds) ==
    IF nodesCountChanged(selectedNodeIds)
    THEN callWith(getSelectionChanges(NodeOrder, nodeSelected, selectedNodeIds))
    ELSE NoCall

(* lines 118-124 *)
edgesCountChanged(selectedEdgeIds) ==
    prevSelectedEdgesCount # Cardinality(selectedEdgeIds)
edgesCall(selectedEdgeIds) ==
    IF edgesCountChanged(selectedEdgeIds)
    THEN callWith(getSelectionChanges(EdgeOrder, edgeSelected, selectedEdgeIds))
    ELSE NoCall

onMouseMove ==
    /\ Rendered
    /\ \E clientX \in ClientXs, clientY \in ClientYs :
        IF moveReturnsEarly
        THEN /\ lastEvent' = Event("move", 0, 0, FALSE)
             /\ nodesChanges' = NoCall
             /\ edgesChanges' = NoCall
             /\ UNCHANGED <<controllerVars, storeVars>>
        ELSE LET mousePos == getMousePosition(clientX, clientY, containerBounds)
                 rect == nextUserSelectRect(mousePos)
                 selectedNodeIds == selectedNodeIdsOf(rect)
                 selectedEdgeIds == selectedEdgeIdsOf(rect)
             IN  /\ lastEvent' =
                        [Event("move", clientX, clientY, TRUE) EXCEPT
                            !.selectedNodeIds = selectedNodeIds,
                            !.selectedEdgeIds = selectedEdgeIds]
                 /\ prevSelectedNodesCount' =
                        IF nodesCountChanged(selectedNodeIds)
                        THEN Cardinality(selectedNodeIds)
                        ELSE prevSelectedNodesCount
                 /\ nodesChanges' = nodesCall(selectedNodeIds)
                 /\ nodeSelected' = applyChanges(nodeSelected, nodesChanges')
                 /\ prevSelectedEdgesCount' =
                        IF edgesCountChanged(selectedEdgeIds)
                        THEN Cardinality(selectedEdgeIds)
                        ELSE prevSelectedEdgesCount
                 /\ edgesChanges' = edgesCall(selectedEdgeIds)
                 /\ edgeSelected' = applyChanges(edgeSelected, edgesChanges')
                 /\ userSelectionRect' = rect
                 /\ UNCHANGED <<containerBounds, userSelectionActive,
                                nodesSelectionActive>>
    /\ UNCHANGED <<transform, elementsSelectable, selectionKeyPressed, keyGated>>

(* onMouseUp, lines 129-133 *)
mouseUpNodesSelectionActive == prevSelectedNodesCount > 0

onMouseUp ==
    /\ Rendered
    /\ nodesSelectionActive' = mouseUpNodesSelectionActive
    /\ resetUserSelection
    /\ lastEvent' = Event("up", 0, 0, TRUE)
    /\ nodesChanges' = NoCall
    /\ edgesChanges' = NoCall
    /\ UNCHANGED <<containerBounds, nodeSelected, edgeSelected, transform,
                   elementsSelectable, selectionKeyPressed, keyGated>>

(* Fault: the leave handler signalling what the release handler signals.   *)
mouseLeaveNodesSelectionActive_asMouseUp == prevSelectedNodesCount > 0

(* onMouseLeave, lines 135-139 *)
mouseLeaveNodesSelectionActive == FALSE

onMouseLeave ==
    /\ Rendered
    /\ nodesSelectionActive' = mouseLeaveNodesSelectionActive
    /\ resetUserSelection
    /\ lastEvent' = Event("leave", 0, 0, TRUE)
    /\ nodesChanges' = NoCall
    /\ edgesChanges' = NoCall
    /\ UNCHANGED <<containerBounds, nodeSelected, edgeSelected, transform,
                   elementsSelectable, selectionKeyPressed, keyGated>>

(* The host re-renders the component with a new selectionKeyPressed prop.  *)
selectionKeyChange ==
    /\ selectionKeyPressed' = ~selectionKeyPressed
    /\ lastEvent' = Event("key", 0, 0, FALSE)
    /\ nodesChanges' = NoCall
    /\ edgesChanges' = NoCall
    /\ UNCHANGED <<controllerVars, storeVars, transform, elementsSelectable,
                   keyGated>>

(* Someone else writes a selected flag of the store between two events.    *)
externalSelect ==
    /\ \/ \E n \in Nodes :
            /\ nodeSelected' = [nodeSelected EXCEPT ![n] = ~nodeSelected[n]]
            /\ UNCHANGED edgeSelected
       \/ \E e \in Edges :
            /\ edgeSelected' = [edgeSelected EXCEPT ![e] = ~edgeSelected[e]]
            /\ UNCHANGED nodeSelected
    /\ lastEvent' = Event("external", 0, 0, FALSE)
    /\ nodesChanges' = NoCall
    /\ edgesChanges' = NoCall
    /\ UNCHANGED <<controllerVars, userSelectionActive, nodesSelectionActive,
                   transform, elementsSelectable, selectionKeyPressed, keyGated>>

Next ==
    \/ onMouseDown
    \/ onMouseMove
    \/ onMouseUp
    \/ onMouseLeave
    \/ selectionKeyChange

(* Only the controller and the change handler write the store.             *)
Spec == Init /\ [][Next]_vars

NextExt ==
    \/ Next
    \/ externalSelect

(* The store's selected flags are also written from outside.               *)
SpecExt == Init /\ [][NextExt]_vars

----------------------------------------------------------------------------
(* What the claims speak of.                                               *)
SelectedNodes == {n \in Nodes : nodeSelected[n]}
SelectedEdges == {e \in Edges : edgeSelected[e]}
ProcessedMove == lastEvent.kind = "move" /\ lastEvent.processed
(* The position of the event relative to the cached container bounds.      *)
CurrentX == lastEvent.clientX - containerBounds.left
CurrentY == lastEvent.clientY - containerBounds.top
Min(a, b) == IF a < b THEN a ELSE b
FlipsOnly(call, selected) ==
    call.called =>
        /\ Len(call.changes) > 0
        /\ \A i \in 1..Len(call.changes) :
              call.changes[i].selected # selected[call.changes[i].id]

(* C1: after every processed mouse move, the nodes flagged selected in the *)
(* store are exactly the nodes the hit test returns for the rectangle.     *)
C1_SelectedNodesAreHitSet ==
    ProcessedMove => SelectedNodes = selectedNodeIdsOf(userSelectionRect)

(* C2: after every processed mouse move, the edges flagged selected in the *)
(* store are exactly the edges with an endpoint among the nodes inside the *)
(* rectangle.                                                              *)
C2_SelectedEdgesAreConnected ==
    ProcessedMove => SelectedEdges = selectedEdgeIdsOf(userSelectionRect)

(* C3: a processed move that computes as many selected nodes (edges) as    *)
(* the counter recorded calls no change handler for the nodes (edges) and  *)
(* leaves that counter as it was, whatever the members of the set.         *)
C3_SameCountNoDiff ==
    ProcessedMove =>
        /\ Cardinality(selectedNodeIdsOf(userSelectionRect)) = lastEvent.nodesCount
              => /\ nodesChanges = NoCall
                 /\ prevSelectedNodesCount = lastEvent.nodesCount
        /\ Cardinality(selectedEdgeIdsOf(userSelectionRect)) = lastEvent.edgesCount
              => /\ edgesChanges = NoCall
                 /\ prevSelectedEdgesCount = lastEvent.edgesCount

(* A move that kept the count of 1 while the store's selected nodes are    *)
(* not the nodes inside the rectangle.                                     *)
C3_Witness ==
    /\ ProcessedMove
    /\ lastEvent.nodesCount > 0
    /\ Cardinality(selectedNodeIdsOf(userSelectionRect)) = lastEvent.nodesCount
    /\ SelectedNodes # selectedNodeIdsOf(userSelectionRect)
    /\ nodesChanges = NoCall

LeaveWhileSelecting ==
    lastEvent.kind = "leave" /\ lastEvent.draw /\ lastEvent.nodesCount > 0

C5_ReleaseSignal ==
    [][lastEvent'.kind = "up" =>
          /\ nodesSelectionActive' = (prevSelectedNodesCount > 0)
          /\ lastEvent.kind = "down" => ~nodesSelectionActive']_vars

(* C6: the rectangle is the normalised box of the anchor and the current   *)
(* point: right after a press it is the empty box at the press point,      *)
(* right after a processed move x and y are the minima and width and       *)
(* height the distances, and at all times width and height are >= 0 and    *)
(* the anchor is one of the box's corners.                                 *)
C6_RectNormalised ==
    LET r == userSelectionRect
    IN  /\ r.width >= 0 /\ r.height >= 0
        /\ r.x = r.startX \/ r.x + r.width = r.startX
        /\ r.y = r.startY \/ r.y + r.height = r.startY
        /\ lastEvent.kind = "down" =>
              /\ r.startX = CurrentX /\ r.startY = CurrentY
              /\ r.x = CurrentX /\ r.y = CurrentY
              /\ r.width = 0 /\ r.height = 0
        /\ ProcessedMove =>
              /\ r.x = Min(r.startX, CurrentX)
              /\ r.y = Min(r.startY, CurrentY)
              /\ r.width = Abs(CurrentX - r.startX)
              /\ r.height = Abs(CurrentY - r.startY)

(* A drag to the left of and below the anchor.                             *)
C6_Witness ==
    /\ ProcessedMove
    /\ CurrentX < userSelectionRect.startX
    /\ CurrentY > userSelectionRect.startY

(* C7: every change handed to a change handler sets a selected value that  *)
(* differs from the item's flag in the store read by the same move, and no *)
(* handler is called with an empty batch.                                  *)
C7_ChangesFlip ==
    [][/\ FlipsOnly(nodesChanges', nodeSelected)
       /\ FlipsOnly(edgesChanges', edgeSelected)]_vars

(* A move that deselects a node and calls the edge handler as well.        *)
C7_Witness ==
    /\ nodesChanges.called
    /\ \E i \in 1..Len(nodesChanges.changes) : ~nodesChanges.changes[i].selected
    /\ edgesChanges.called

(* C8: with a gating key, a press starts drawing only while the key is     *)
(* held.                                                                   *)
C8_PressNeedsKey ==
    (lastEvent.kind = "down" /\ keyGated) =>
        ~(userSelectionRect.draw /\ userSelectionActive /\ ~selectionKeyPressed)

(* C9: with a gating key, a move while the key is not held changes neither *)
(* the rectangle, the counters nor the store and calls no handler; without *)
(* a gating key a move is processed exactly when the rectangle is being    *)
(* drawn and the bounds are cached, whatever the key.                      *)
C9_MoveWithoutKeyIgnored ==
    [][lastEvent'.kind = "move" =>
          /\ (keyGated /\ ~selectionKeyPressed) =>
                /\ UNCHANGED <<controllerVars, storeVars>>
                /\ nodesChanges' = NoCall /\ edgesChanges' = NoCall
                /\ ~lastEvent'.processed
          /\ ~keyGated =>
                (lastEvent'.processed <=>
                    userSelectionRect.draw /\ containerBounds # NoBounds)]_vars

C9_Witness ==
    /\ lastEvent.kind = "move" /\ ~lastEvent.processed
    /\ keyGated /\ ~selectionKeyPressed
    /\ userSelectionRect.draw /\ containerBounds # NoBounds

(* C10: a move while nothing is being drawn, or with no bounds cached,     *)
(* changes neither the rectangle, the counters, the two signals nor the    *)
(* selected flags and calls no handler.                                    *)
C10_IdleMoveIsNoOp ==
    [][(lastEvent'.kind = "move"
            /\ (~userSelectionRect.draw \/ containerBounds = NoBounds)) =>
          /\ UNCHANGED <<controllerVars, storeVars>>
          /\ nodesChanges' = NoCall /\ edgesChanges' = NoCall
          /\ ~lastEvent'.processed]_vars

(* An ignored move after a completed drag: the bounds of that drag are     *)
(* still cached.                                                           *)
C10_Witness ==
    /\ lastEvent.kind = "move" /\ ~lastEvent.processed
    /\ ~userSelectionRect.draw /\ containerBounds # NoBounds

----------------------------------------------------------------------------
(* The node's box against the rectangle, both in screen units from the     *)
(* canvas origin: the node's canvas box times the zoom, the rectangle      *)
(* less the translation.                                                   *)
Measured(n) == nodeDimensions[n] # NoDim
RectLeft == userSelectionRect.x - transform[1]
RectRight == RectLeft + userSelectionRect.width
RectTop == userSelectionRect.y - transform[2]
RectBottom == RectTop + userSelectionRect.height
BoxLeft(n) == transform[3] * nodePosition[n].x
BoxRight(n) == transform[3] * (nodePosition[n].x + nodeDimensions[n].width)
BoxTop(n) == transform[3] * nodePosition[n].y
BoxBottom(n) == transform[3] * (nodePosition[n].y + nodeDimensions[n].height)
Overlaps(n) ==
    /\ BoxLeft(n) < RectRight /\ RectLeft < BoxRight(n)
    /\ BoxTop(n) < RectBottom /\ RectTop < BoxBottom(n)
Contained(n) ==
    /\ RectLeft <= BoxLeft(n) /\ BoxRight(n) <= RectRight
    /\ RectTop <= BoxTop(n) /\ BoxBottom(n) <= RectBottom

SecondDiff(order, selected, selectedIds) ==
    getSelectionChanges(order,
        applyChanges(selected,
                     Call(getSelectionChanges(order, selected, selectedIds))),
        selectedIds)

(* C12: for the flags of every state and every set of ids, the changes     *)
(* computed again after the first changes were applied are empty; and a    *)
(* processed move that follows a processed move and leaves the rectangle   *)
(* as it was calls no change handler.                                      *)
C12_DiffIdempotent ==
    /\ [](/\ \A S \in SUBSET Nodes : SecondDiff(NodeOrder, nodeSelected, S) = <<>>
          /\ \A S \in SUBSET Edges : SecondDiff(EdgeOrder, edgeSelected, S) = <<>>)
    /\ [][(/\ ProcessedMove
           /\ lastEvent'.kind = "move" /\ lastEvent'.processed
           /\ userSelectionRect' = userSelectionRect) =>
             nodesChanges' = NoCall /\ edgesChanges' = NoCall]_vars

(* A move has emitted both batches, the store has applied them, and the    *)
(* diff for the same ids against the new flags is empty.                   *)
C12_Witness ==
    /\ ProcessedMove
    /\ nodesChanges.called /\ edgesChanges.called
    /\ getSelectionChanges(NodeOrder, nodeSelected, lastEvent.selectedNodeIds) = <<>>
    /\ getSelectionChanges(EdgeOrder, edgeSelected, lastEvent.selectedEdgeIds) = <<>>

(* C13: right after a press both counters are zero, the rectangle is the   *)
(* empty rectangle at the press point with draw set, and the store's       *)
(* userSelectionActive is true.                                            *)
C13_PressResetsCounters ==
    lastEvent.kind = "down" =>
        /\ prevSelectedNodesCount = 0 /\ prevSelectedEdgesCount = 0
        /\ userSelectionRect =
              mouseDownRect([x |-> CurrentX, y |-> CurrentY])
        /\ userSelectionActive

ExitEvent == lastEvent.kind \in {"up", "leave"}

(* C14: right after a release or a leave the rectangle is initialRect, the *)
(* store's userSelectionActive is false and both counters are zero.        *)
C14_ExitResets ==
    ExitEvent =>
        /\ userSelectionRect = initialRect
        /\ ~userSelectionActive
        /\ prevSelectedNodesCount = 0 /\ prevSelectedEdgesCount = 0

(* A release that ends a drag with a node and an edge counted.             *)
C14_Witness ==
    /\ lastEvent.kind = "up" /\ lastEvent.draw
    /\ lastEvent.nodesCount > 0 /\ lastEvent.edgesCount > 0

(* C15: once a release or a leave has ended a drag no container bounds are *)
(* cached: the bounds are present only while the rectangle is drawn.       *)
C15_BoundsOnlyWhileDrawing ==
    /\ ExitEvent => containerBounds = NoBounds
    /\ containerBounds # NoBounds => userSelectionRect.draw

(* C16: a press sets the anchor to the press point relative to the bounds  *)
(* it caches, and no move, processed or ignored, changes the anchor or     *)
(* the cached bounds.                                                      *)
C16_AnchorFixed ==
    /\ [](lastEvent.kind = "down" =>
            /\ userSelectionRect.startX = CurrentX
            /\ userSelectionRect.startY = CurrentY)
    /\ [][lastEvent'.kind = "move" =>
            /\ userSelectionRect'.startX = userSelectionRect.startX
            /\ userSelectionRect'.startY = userSelectionRect.startY
            /\ containerBounds' = containerBounds]_vars

(* A processed move to a point left of and above or below the anchor.      *)
C16_Witness ==
    /\ ProcessedMove
    /\ CurrentX < userSelectionRect.startX
    /\ CurrentY # userSelectionRect.startY
    /\ userSelectionRect.width > 0

ChangeSet(call) == {call.changes[i] : i \in 1..Len(call.changes)}
MembershipDiff(selected, ids) ==
    {[id |-> id, selected |-> TRUE] : id \in {i \in ids : ~selected[i]}}
        \cup {[id |-> id, selected |-> FALSE] :
                 id \in {i \in DOMAIN selected \ ids : selected[i]}}

(* C17: a processed move that computes a node count other than the         *)
(* recorded one hands the node handler exactly the records that turn the   *)
(* store's flags into the hit set, one per node, and calls it only if      *)
(* there are any; the store's selected nodes are then the hit set.         *)
C17_NodeBatchIsMembershipDiff ==
    [][(/\ lastEvent'.kind = "move" /\ lastEvent'.processed
        /\ Cardinality(lastEvent'.selectedNodeIds) # prevSelectedNodesCount) =>
          LET want == MembershipDiff(nodeSelected, lastEvent'.selectedNodeIds)
          IN  /\ ChangeSet(nodesChanges') = want
              /\ Len(nodesChanges'.changes) = Cardinality(want)
              /\ nodesChanges'.called <=> want # {}
              /\ {n \in Nodes : nodeSelected'[n]} = lastEvent'.selectedNodeIds]_vars

(* The drag had a node selected, the hit set became empty and the node got *)
(* its deselect record.                                                    *)
C17_Witness ==
    /\ ProcessedMove
    /\ lastEvent.nodesCount > 0
    /\ lastEvent.selectedNodeIds = {}
    /\ nodesChanges.called
    /\ \E i \in 1..Len(nodesChanges.changes) : ~nodesChanges.changes[i].selected
    /\ SelectedNodes = {}

(* C18: the store's userSelectionActive equals the rectangle's draw flag.  *)
C18_ActiveIffDrawing == userSelectionActive = userSelectionRect.draw

(* Drawing, after a processed move.                                        *)
C18_Witness ==
    ProcessedMove /\ userSelectionRect.draw /\ userSelectionActive

(* C19: userSelectionActive and nodesSelectionActive are never both true,  *)
(* nodesSelectionActive is false while the rectangle is drawn, and only a  *)
(* release turns it true.                                                  *)
C19_SignalsExclusive ==
    /\ [](/\ ~(userSelectionActive /\ nodesSelectionActive)
          /\ userSelectionRect.draw => ~nodesSelectionActive)
    /\ [][(nodesSelectionActive' /\ ~nodesSelectionActive) =>
             lastEvent'.kind = "up"]_vars

(* A release has turned nodesSelectionActive true.                         *)
C19_Witness ==
    /\ lastEvent.kind = "up"
    /\ nodesSelectionActive /\ ~userSelectionActive
    /\ ~userSelectionRect.draw

(* C20: right after a processed move the node counter is the number of     *)
(* nodes and the edge counter the number of edge ids the move computed;    *)
(* while nothing is drawn both counters are zero.                          *)
C20_CountersTrackComputedIds ==
    /\ ProcessedMove =>
          /\ prevSelectedNodesCount = Cardinality(lastEvent.selectedNodeIds)
          /\ prevSelectedEdgesCount = Cardinality(lastEvent.selectedEdgeIds)
    /\ ~userSelectionRect.draw =>
          prevSelectedNodesCount = 0 /\ prevSelectedEdgesCount = 0

(* A move that changed both counters to the sizes of non-empty sets.       *)
C20_Witness ==
    /\ ProcessedMove
    /\ lastEvent.selectedNodeIds # {} /\ lastEvent.selectedEdgeIds # {}
    /\ lastEvent.nodesCount # prevSelectedNodesCount
    /\ lastEvent.edgesCount # prevSelectedEdgesCount

====
